---- MODULE Spec2Model ----
(***************************************************************************)
(* Model of fly-build-utils (src/src/index.js): the process runner `run`,  *)
(* the batch join `runAsync`, the server discovery `getServers` and the    *)
(* webpack drivers `compile` / `compileAndWatch` with `logWebpackData`.    *)
(*                                                                         *)
(* JavaScript objects are records whose DOMAIN holds exactly the           *)
(* properties that are present; a missing string property reads as         *)
(* Undefined.  Promises are records [state, value, resolutions, calls].    *)
(***************************************************************************)
EXTENDS Integers, Sequences, FiniteSets, TLC

\* ------------------------------------------------------------------ bounds
MaxRuns == 2      \* children started (and joins made) in one behaviour
MaxMsgs == 2      \* 'message' events one forked child sends
MaxSessions == 2  \* compile / compileAndWatch calls in one behaviour
MaxPasses == 2    \* build passes of one watch session
MaxLen == 2       \* bundle names in a list or in the directory
MaxCalls == 2     \* getServers calls in one behaviour

\* ------------------------------------------------------------ JS values
Undefined == "undefined"
EmptyObj  == [k \in {} |-> Undefined]
Has(o, k) == k \in DOMAIN o
Get(o, k) == IF Has(o, k) THEN o[k] ELSE Undefined

\* Event payloads (first argument the emitter hands to a listener).
Payload(kind, v) == [kind |-> kind, v |-> v]
NoValue   == Payload("none", 0)
TypeError == Payload("TypeError", 0)
ENOENT    == Payload("error", -2)
ExitCodes == {0, 2}

\* ------------------------------------------------------------- promises
NewPromise == [state |-> "pending", value |-> NoValue, resolutions |-> 0, calls |-> 0]

\* Mutant of Resolve: a later call of the resolver replaces the value.
ResolveLatest(p, v) ==
  IF p.state = "pending"
    THEN [p EXCEPT !.state = "fulfilled", !.value = v,
                   !.resolutions = @ + 1, !.calls = @ + 1]
    ELSE [p EXCEPT !.value = v, !.calls = @ + 1]

\* Mutant of Resolve: every call of the resolver sets the value again.
ResolveAgain(p, v) ==
  [p EXCEPT !.state = "fulfilled", !.value = v,
            !.resolutions = @ + 1, !.calls = @ + 1]

\* The resolving function of a promise: only its first call settles it.
Resolve(p, v) ==
  IF p.state = "pending"
    THEN [p EXCEPT !.state = "fulfilled", !.value = v,
                   !.resolutions = @ + 1, !.calls = @ + 1]
    ELSE [p EXCEPT !.calls = @ + 1]

\* An executor that throws rejects the promise it is constructing.
Reject(p, e) ==
  IF p.state = "pending"
    THEN [p EXCEPT !.state = "rejected", !.value = e, !.resolutions = @ + 1]
    ELSE p

VARIABLES
  processEnv,   \* process.env of the orchestrator
  runs,         \* one record per call of run: the child and the returned promise
  batches,      \* one record per Promise.all join (runAsync)
  jobs,         \* the microtask queue: pending Promise.all reactions <<batch, index>>
  sessions,     \* one record per call of compile / compileAndWatch
  dir,          \* the listing of <cwd>/app/bundles
  fsReads,      \* calls of fs.readdirSync so far
  servers       \* calls of getServers so far: [params, result]

procVars == <<processEnv, runs, batches, jobs>>
vars == <<processEnv, runs, batches, jobs, sessions, dir, fsReads, servers>>

\* ------------------------------------------------------------- inputs
Scripts  == {"a", Undefined}
Methods  == {Undefined, "fork", "exec"}
Events   == {Undefined, "error", "message"}
ArgLists == {<<"-v">>}
EnvChoices ==
  {[HOME |-> "/root"],
   [HOME |-> "/root", NODE_ENV |-> "production"],
   [HOME |-> "/root", NODE_ENV |-> ""]}
Outcomes == {"ok", "fail"}   \* the OS creates the process, or cannot (ENOENT)

Field(k, v) == IF v = Undefined THEN EmptyObj ELSE [x \in {k} |-> v]
ParamsSet ==
  {Field("method", m) @@ Field("resolveOn", e) : m \in Methods, e \in Events}
    \cup {Field("method", m) @@ [args |-> a] : m \in Methods, a \in ArgLists}

\* ---------------------------------------------------------------- run
\* a || b of JavaScript on strings: undefined and the empty string are falsy.
Falsy(v) == v = Undefined \/ v = ""

\* Mutant of ChildEnv: the environment is handed on without NODE_ENV being set.
ChildEnvInherited == processEnv

\* process.env['NODE_ENV'] || 'development', then
\* Object.assign({}, process.env, { NODE_ENV })
ChildEnv ==
  LET NODE_ENV == IF Falsy(Get(processEnv, "NODE_ENV"))
                    THEN "development" ELSE processEnv.NODE_ENV
  IN  [NODE_ENV |-> NODE_ENV] @@ processEnv

\* Mutant of Strategy: the fork case is missing and falls to the default.
StrategyNoFork(params) ==
  CASE Get(params, "method") = "exec" -> "exec"
    [] OTHER -> "spawn"

\* switch (params.method): fork | exec | default (spawn)
Strategy(params) ==
  CASE Get(params, "method") = "fork" -> "fork"
    [] Get(params, "method") = "exec" -> "exec"
    [] OTHER -> "spawn"

\* The record of one call run(script, params); `outcome` is what the OS does.
\* fork/exec/spawn throw a TypeError for a script that is not a string, and
\* the throw inside the executor rejects the promise.
NewRun(script, params, outcome) ==
  LET args == IF Has(params, "args") THEN params.args ELSE <<>>
      done == IF Get(params, "resolveOn") # Undefined THEN params.resolveOn ELSE "exit"
      via  == Strategy(params)
      thrown == script = Undefined
  IN  [script  |-> script,
       params  |-> params,
       via     |-> via,
       args    |-> IF via = "exec" THEN <<>> ELSE args,
       env     |-> ChildEnv,
       on      |-> IF thrown THEN Undefined ELSE done,
       phase   |-> IF thrown THEN "none" ELSE IF outcome = "ok" THEN "live" ELSE "failing",
       msgs    |-> 0,
       exit    |-> NoValue,
       promise |-> IF thrown THEN Reject(NewPromise, TypeError) ELSE NewPromise,
       batch   |-> 0,
       pos     |-> 0]

\* The reactions Promise.all registered on a run's promise are queued when it settles.
Reactions(r, before, after) ==
  IF before.promise.state = "pending" /\ after.promise.state # "pending" /\ after.batch # 0
    THEN <<<<after.batch, after.pos>>>>
    ELSE <<>>

\* Mutant of Emit: the listener drops the payload, .on(done, () => resolve()).
EmitNoPayload(r, ev, payload) ==
  IF runs[r].on = ev
    THEN [runs[r] EXCEPT !.promise = Resolve(@, NoValue)]
    ELSE runs[r]

\* Mutant of Emit: the listener is attached for every event of the child.
EmitAny(r, ev, payload) ==
  [runs[r] EXCEPT !.promise = Resolve(@, payload)]

\* Mutant of Emit: the listener is attached with .once and is gone after one call.
EmitOnce(r, ev, payload) ==
  IF runs[r].on = ev /\ runs[r].promise.calls = 0
    THEN [runs[r] EXCEPT !.promise = Resolve(@, payload)]
    ELSE runs[r]

\* child.emit(ev, payload): the listener attached by .on(done, resolve) is called.
Emit(r, ev, payload) ==
  IF runs[r].on = ev
    THEN [runs[r] EXCEPT !.promise = Resolve(@, payload)]
    ELSE runs[r]

Deliver(r, after) ==
  /\ runs' = [runs EXCEPT ![r] = after]
  /\ jobs' = jobs \o Reactions(r, runs[r], after)

run(script, params) ==
  /\ jobs = <<>>
  /\ Len(runs) < MaxRuns
  /\ \E outcome \in Outcomes :
       runs' = Append(runs, NewRun(script, params, outcome))
  /\ UNCHANGED <<processEnv, batches, jobs, sessions, dir, fsReads, servers>>

\* The child terminates: 'exit' with its exit code.
ChildExit(r, code) ==
  /\ jobs = <<>>
  /\ runs[r].phase = "live"
  /\ Deliver(r, [Emit(r, "exit", Payload("exit", code))
                   EXCEPT !.phase = "exited", !.exit = Payload("exit", code)])
  /\ UNCHANGED <<processEnv, batches, sessions, dir, fsReads, servers>>

\* The OS could not create the process: 'error', and no 'exit'.
ChildError(r) ==
  /\ jobs = <<>>
  /\ runs[r].phase = "failing"
  /\ Deliver(r, [Emit(r, "error", ENOENT) EXCEPT !.phase = "errored"])
  /\ UNCHANGED <<processEnv, batches, sessions, dir, fsReads, servers>>

\* A forked child sends a message over its IPC channel: 'message'.
ChildMessage(r) ==
  /\ jobs = <<>>
  /\ runs[r].phase = "live"
  /\ runs[r].via = "fork"
  /\ runs[r].msgs < MaxMsgs
  /\ Deliver(r, [Emit(r, "message", Payload("message", runs[r].msgs + 1))
                   EXCEPT !.msgs = @ + 1])
  /\ UNCHANGED <<processEnv, batches, sessions, dir, fsReads, servers>>

\* ----------------------------------------------------------- runAsync
\* A request is a bare string, [str |-> s], or an object { script, params }.
Requests ==
  {[str |-> "a"],
   [script |-> "b", params |-> [method |-> "fork", resolveOn |-> "message"]],
   [params |-> EmptyObj]}

\* typeof item === 'string' ? [ item ] : [ item.script, item.params || {} ]
Normalize(item) ==
  IF Has(item, "str")
    THEN <<item.str>>
    ELSE <<Get(item, "script"), IF Has(item, "params") THEN item.params ELSE EmptyObj>>

\* this.run(...args): a missing second argument takes the default params = {}.
Apply(args, outcome) ==
  NewRun(args[1], IF Len(args) >= 2 THEN args[2] ELSE EmptyObj, outcome)

\* Promise.all over the promises of runs first+1 .. first+n.
NewBatch(first, n) ==
  [first     |-> first,
   n         |-> n,
   values    |-> [i \in 1..n |-> NoValue],
   remaining |-> n,
   promise   |-> IF n = 0 THEN [NewPromise EXCEPT !.state = "fulfilled", !.resolutions = 1]
                          ELSE NewPromise,
   result    |-> <<>>]

Member(b, i) == runs[batches[b].first + i]

RequestLists == UNION {[1..n -> Requests] : n \in 0..MaxRuns}

\* Mutant of runAsync: one child at a time, only the first request is started.
runAsyncCapped(scripts) ==
  /\ jobs = <<>>
  /\ Len(batches) < MaxRuns
  /\ Len(runs) + Len(scripts) <= MaxRuns
  /\ \E outcome \in Outcomes :
       LET b     == Len(batches) + 1
           first == Len(runs)
           started == [i \in 1..(IF scripts = <<>> THEN 0 ELSE 1) |->
                         [Apply(Normalize(scripts[i]), outcome)
                            EXCEPT !.batch = b, !.pos = i]]
       IN  /\ runs' = runs \o started
           /\ batches' = Append(batches, NewBatch(first, Len(scripts)))
           /\ jobs' = <<>>
  /\ UNCHANGED <<processEnv, sessions, dir, fsReads, servers>>

\* Every request is started, in order, before Promise.all joins the promises;
\* a promise that is already rejected has its reaction queued at once.
runAsync(scripts) ==
  /\ jobs = <<>>
  /\ Len(batches) < MaxRuns
  /\ Len(runs) + Len(scripts) <= MaxRuns
  /\ \E outcomes \in [1..Len(scripts) -> Outcomes] :
       LET b     == Len(batches) + 1
           first == Len(runs)
           started == [i \in 1..Len(scripts) |->
                         [Apply(Normalize(scripts[i]), outcomes[i])
                            EXCEPT !.batch = b, !.pos = i]]
           settled == SelectSeq([i \in 1..Len(scripts) |-> i],
                                LAMBDA i : started[i].promise.state # "pending")
       IN  /\ runs' = runs \o started
           /\ batches' = Append(batches, NewBatch(first, Len(scripts)))
           /\ jobs' = [k \in 1..Len(settled) |-> <<b, settled[k]>>]
  /\ UNCHANGED <<processEnv, sessions, dir, fsReads, servers>>

\* Mutant of AllFulfilled: the values are stored in completion order.
AllFulfilledPush(bt, i, v) ==
  LET values == [bt.values EXCEPT ![bt.n - bt.remaining + 1] = v]
  IN  IF bt.remaining = 1
        THEN [bt EXCEPT !.values = values, !.remaining = 0,
                        !.promise = Resolve(@, NoValue), !.result = values]
        ELSE [bt EXCEPT !.values = values, !.remaining = @ - 1]

\* Mutant of AllFulfilled: the join resolves with the first fulfilled element.
AllFulfilledFirst(bt, i, v) ==
  LET values == [bt.values EXCEPT ![i] = v]
  IN  [bt EXCEPT !.values = values, !.remaining = @ - 1,
                 !.promise = Resolve(@, NoValue),
                 !.result = IF bt.promise.state = "pending" THEN values ELSE @]

\* resolveElement of Promise.all: store at the element's index, resolve when none is left.
AllFulfilled(bt, i, v) ==
  LET values == [bt.values EXCEPT ![i] = v]
  IN  IF bt.remaining = 1
        THEN [bt EXCEPT !.values = values, !.remaining = 0,
                        !.promise = Resolve(@, NoValue), !.result = values]
        ELSE [bt EXCEPT !.values = values, !.remaining = @ - 1]

\* Mutant of AllRejected: a rejected element is skipped.
AllRejectedIgnored(bt, e) == bt

\* The reject reaction of Promise.all: the first rejection rejects the join.
AllRejected(bt, e) == [bt EXCEPT !.promise = Reject(@, e)]

\* One microtask: the reaction of join b to its i-th promise.
Reaction ==
  /\ jobs # <<>>
  /\ LET b == Head(jobs)[1]
         i == Head(jobs)[2]
         p == Member(b, i).promise
     IN  batches' = [batches EXCEPT ![b] =
                       IF p.state = "fulfilled" THEN AllFulfilled(@, i, p.value)
                                                ELSE AllRejected(@, p.value)]
  /\ jobs' = Tail(jobs)
  /\ UNCHANGED <<processEnv, runs, sessions, dir, fsReads, servers>>

\* -------------------------------------------------------- copy, move
\* Items to copy or move: { target, dest }.
Items == {[target |-> "app/a", dest |-> "out"], [target |-> "app/b", dest |-> "pub"]}
ItemLists == UNION {[1..n -> Items] : n \in 0..MaxRuns}

\* Mutant of CopyCommand: target and destination change places.
CopyCommandSwapped(item) == "cp -a " \o item.dest \o " " \o item.target

\* `cp -a ${item.target} ${item.dest}`
CopyCommand(item) == "cp -a " \o item.target \o " " \o item.dest

\* `mv ${item.target} ${item.dest}`
MoveCommand(item) == "mv " \o item.target \o " " \o item.dest

\* Promise.all(items.map(item => this.run(command, { method: 'exec' }))):
\* every command is started, in order, then the promises are joined.
JoinCommands(op, items, commands) ==
  /\ jobs = <<>>
  /\ Len(batches) < MaxRuns
  /\ Len(runs) + Len(items) <= MaxRuns
  /\ \E outcomes \in [1..Len(items) -> Outcomes] :
       LET b     == Len(batches) + 1
           first == Len(runs)
           started == [i \in 1..Len(items) |->
                         [NewRun(commands[i], [method |-> "exec"], outcomes[i])
                            EXCEPT !.batch = b, !.pos = i]]
       IN  /\ runs' = runs \o started
           /\ batches' = Append(batches,
                 NewBatch(first, Len(items)) @@ [op |-> op, items |-> items])
  /\ UNCHANGED <<processEnv, jobs, sessions, dir, fsReads, servers>>

copy(items) ==
  JoinCommands("copy", items, [i \in 1..Len(items) |-> CopyCommand(items[i])])

move(items) ==
  JoinCommands("move", items, [i \in 1..Len(items) |-> MoveCommand(items[i])])

\* ------------------------------------------------------- getServers
BundleNames == {"alpha", "beta"}
EntryNames  == {"x.js", "y.js"}
Lists(S) == UNION {[1..n -> S] : n \in 0..MaxLen}
\* A directory holds each entry name once.
Listings == {l \in Lists(EntryNames) : \A i, k \in 1..Len(l) : l[i] = l[k] => i = k}
HotChoices == {Undefined, "true", "false"}
ServerParams ==
  {Field("hot", h) : h \in HotChoices}
    \cup {[bundles |-> b] @@ Field("hot", h) : b \in Lists(BundleNames), h \in HotChoices}

\* servers.map(...) of the hot branch
HotServer(server) ==
  [script |-> "scripts/nodemon",
   params |-> [args |-> <<"build/" \o server \o ".js">>]]

\* servers.map(...) of the other branch
ForkServer(server) ==
  [script |-> "build/" \o server \o ".js",
   params |-> [method |-> "fork"]]

\* Mutant of ReadsDir: the directory is listed on every call.
ReadsDirAlways(params) == TRUE

\* bundles || fs.readdirSync(path.resolve(process.cwd(), 'app', 'bundles'))
ReadsDir(params) == ~Has(params, "bundles")

ServerNames(params, listing) ==
  IF ReadsDir(params) THEN listing ELSE params.bundles

\* Mutant of MapServers: the requests come out in reverse order.
MapServersReversed(names, hot) ==
  [i \in 1..Len(names) |->
     IF hot THEN HotServer(names[Len(names) + 1 - i])
            ELSE ForkServer(names[Len(names) + 1 - i])]

MapServers(names, hot) ==
  [i \in 1..Len(names) |-> IF hot THEN HotServer(names[i]) ELSE ForkServer(names[i])]

getServers(params) ==
  /\ Len(servers) < MaxCalls
  /\ servers' = Append(servers,
       [params |-> params,
        result |-> MapServers(ServerNames(params, dir), Get(params, "hot") = "true")])
  /\ fsReads' = IF ReadsDir(params) THEN fsReads + 1 ELSE fsReads
  /\ UNCHANGED <<procVars, sessions, dir>>

\* --------------------------------------- compile and compileAndWatch
Errs  == {Undefined, "Error"}
Stats == {Undefined, "Stats"}
\* What the engine hands to its callback: stats, an error, or both.
BuildOutcomes == {o \in Errs \X Stats : o[1] # Undefined \/ o[2] # Undefined}

\* logWebpackData(err, stats): the effects in order, ending with "throw" when
\* stats.toString is read off an undefined stats.
logWebpackData(err, stats) ==
  (IF err # Undefined THEN <<"error">> ELSE <<>>)
    \o (IF stats = Undefined THEN <<"throw">> ELSE <<"log">>)

Throws(effects) == effects # <<>> /\ effects[Len(effects)] = "throw"
Count(effects, e) == Len(SelectSeq(effects, LAMBDA x : x = e))

NewSession(mode) ==
  [mode       |-> mode,
   initialRun |-> TRUE,
   passes     |-> 0,       \* callbacks the engine has made
   errors     |-> 0,       \* this.error calls
   logs       |-> 0,       \* this.log calls
   throws     |-> 0,       \* callbacks that ended with an exception
   input      |-> <<Undefined, Undefined>>,  \* (err, stats) of the latest callback
   last       |-> <<>>,    \* what the latest callback did, in order
   promise    |-> NewPromise]

Reported(s, err, stats) ==
  LET effects == logWebpackData(err, stats)
  IN
  [s EXCEPT !.passes = @ + 1,
            !.input  = <<err, stats>>,
            !.errors = @ + Count(effects, "error"),
            !.logs   = @ + Count(effects, "log"),
            !.throws = @ + Count(effects, "throw")]

compile ==
  /\ Len(sessions) < MaxSessions
  /\ sessions' = Append(sessions, NewSession("run"))
  /\ UNCHANGED <<procVars, dir, fsReads, servers>>

compileAndWatch ==
  /\ Len(sessions) < MaxSessions
  /\ sessions' = Append(sessions, NewSession("watch"))
  /\ UNCHANGED <<procVars, dir, fsReads, servers>>

\* The callback handed to webpack(config).run
RunCallback(s, err, stats) ==
  LET effects == logWebpackData(err, stats)
  IN  IF Throws(effects)
        THEN [Reported(s, err, stats) EXCEPT !.last = effects]
        ELSE [Reported(s, err, stats) EXCEPT !.last = effects \o <<"resolve">>,
                                          !.promise = Resolve(@, NoValue)]

\* Mutant of WatchCallback: the first callback resolves and leaves the flag set.
WatchCallbackKeepsFlag(s, err, stats) ==
  LET effects == logWebpackData(err, stats)
  IN  IF Throws(effects)
        THEN [Reported(s, err, stats) EXCEPT !.last = effects]
        ELSE IF s.initialRun
          THEN [Reported(s, err, stats) EXCEPT !.last = effects \o <<"resolve">>,
                                            !.promise = Resolve(@, NoValue)]
          ELSE [Reported(s, err, stats) EXCEPT !.last = effects]

\* The callback handed to webpack(config).watch
WatchCallback(s, err, stats) ==
  LET effects == logWebpackData(err, stats)
  IN  IF Throws(effects)
        THEN [Reported(s, err, stats) EXCEPT !.last = effects]
        ELSE IF s.initialRun
          THEN [Reported(s, err, stats) EXCEPT !.last = effects \o <<"resolve">>,
                                            !.initialRun = FALSE,
                                            !.promise = Resolve(@, NoValue)]
          ELSE [Reported(s, err, stats) EXCEPT !.last = effects]

\* The engine finishes the single build pass of a one-shot session.
BuildDone(k, err, stats) ==
  /\ sessions[k].mode = "run"
  /\ sessions[k].passes = 0
  /\ sessions' = [sessions EXCEPT ![k] = RunCallback(@, err, stats)]
  /\ UNCHANGED <<procVars, dir, fsReads, servers>>

\* The engine finishes a build pass of a watch session.
WatchPass(k, err, stats) ==
  /\ sessions[k].mode = "watch"
  /\ sessions[k].passes < MaxPasses
  /\ sessions' = [sessions EXCEPT ![k] = WatchCallback(@, err, stats)]
  /\ UNCHANGED <<procVars, dir, fsReads, servers>>

\* ---------------------------------------------------------- behaviours
Idle ==
  /\ runs = <<>>
  /\ batches = <<>>
  /\ jobs = <<>>
  /\ sessions = <<>>
  /\ fsReads = 0
  /\ servers = <<>>

Init ==
  /\ processEnv \in EnvChoices
  /\ dir = <<>>
  /\ Idle

\* One ambient environment, without NODE_ENV.
InitOneEnv ==
  /\ processEnv = [HOME |-> "/root"]
  /\ dir = <<>>
  /\ Idle

\* The events of the children, common to every behaviour.
ChildEvent ==
  \/ \E r \in 1..Len(runs), c \in ExitCodes : ChildExit(r, c)
  \/ \E r \in 1..Len(runs) : ChildError(r)
  \/ \E r \in 1..Len(runs) : ChildMessage(r)

\* Direct calls of run.
Next ==
  \/ \E s \in Scripts, p \in ParamsSet : run(s, p)
  \/ ChildEvent

Spec == InitOneEnv /\ [][Next]_vars

\* Calls of runAsync.
NextAsync ==
  \/ \E l \in RequestLists : runAsync(l)
  \/ ChildEvent
  \/ Reaction

SpecAsync == InitOneEnv /\ [][NextAsync]_vars

\* The event loop runs every queued microtask.
SpecAsyncFair == SpecAsync /\ WF_vars(Reaction)

\* The joins: runAsync, copy and move.
NextBatch ==
  \/ \E l \in RequestLists : runAsync(l)
  \/ \E l \in ItemLists : copy(l)
  \/ \E l \in ItemLists : move(l)
  \/ ChildEvent
  \/ Reaction

SpecBatch == InitOneEnv /\ [][NextBatch]_vars

\* The launches alone: run called directly and through runAsync.
NextDispatch ==
  \/ \E s \in Scripts, p \in ParamsSet : run(s, p)
  \/ \E l \in RequestLists : runAsync(l)
  \/ Reaction

SpecDispatch == InitOneEnv /\ [][NextDispatch]_vars

\* Direct calls of run under every ambient environment.
NextEnv == \E s \in Scripts, p \in ParamsSet : run(s, p)

SpecEnv == Init /\ [][NextEnv]_vars

\* Calls of compile and compileAndWatch.
NextCompile ==
  \/ compile
  \/ compileAndWatch
  \/ \E k \in 1..Len(sessions), o \in BuildOutcomes : BuildDone(k, o[1], o[2])
  \/ \E k \in 1..Len(sessions), o \in BuildOutcomes : WatchPass(k, o[1], o[2])

SpecCompile == InitOneEnv /\ [][NextCompile]_vars

\* Calls of getServers over every listing of the bundle directory.
InitServers ==
  /\ processEnv = [HOME |-> "/root"]
  /\ dir \in Listings
  /\ Idle

NextServers == \E p \in ServerParams : getServers(p)

SpecServers == InitServers /\ [][NextServers]_vars

\* ================================================================ claims
Runs == 1..Len(runs)

\* The awaited event has fired on the child of run r.
Fired(r) ==
  \/ runs[r].on = "exit"    /\ runs[r].phase = "exited"
  \/ runs[r].on = "error"   /\ runs[r].phase = "errored"
  \/ runs[r].on = "message" /\ runs[r].msgs >= 1

\* The child of run r emits nothing any more.
Gone(r) == runs[r].phase \in {"exited", "errored"}

ForegroundExit(r) == runs[r].via = "spawn" /\ runs[r].on = "exit"

\* C1: a run with the default strategy (spawn) that awaits 'exit' has its
\* future resolved exactly once, with the payload of the child's exit event
\* (also a non-zero code), and the future is never rejected.
C1_ExitResolvesOnce ==
  \A r \in Runs : ForegroundExit(r) =>
    /\ runs[r].promise.resolutions <= 1
    /\ runs[r].promise.state # "rejected"
    /\ runs[r].phase = "exited" =>
         /\ runs[r].promise.state = "fulfilled"
         /\ runs[r].promise.value = runs[r].exit
         /\ runs[r].promise.resolutions = 1
    /\ runs[r].promise.state = "fulfilled" => runs[r].phase = "exited"

C1_Witness ==
  \E r \in Runs :
    /\ ForegroundExit(r)
    /\ runs[r].phase = "exited"
    /\ runs[r].promise.state = "fulfilled"
    /\ runs[r].promise.value = Payload("exit", 2)

\* C2 as stated: every run's future is resolved at most once, and no run is
\* left unresolved: once its child emits nothing any more the future is settled.
C2_NeverLeftPending ==
  \A r \in Runs :
    /\ runs[r].promise.resolutions <= 1
    /\ Gone(r) => runs[r].promise.state # "pending"

\* C2 amended: every run's future is settled at most once, however often the
\* resolver is called; it is fulfilled exactly when the awaited event has fired
\* on the child, and it stays pending when the child never emits that event.
C2_ResolvedIffFired ==
  \A r \in Runs :
    /\ runs[r].promise.resolutions <= 1
    /\ runs[r].promise.state = "fulfilled" <=> Fired(r)
    /\ runs[r].promise.state = "rejected" <=> runs[r].phase = "none"
    /\ runs[r].promise.state = "pending" => runs[r].promise.resolutions = 0

C2_Witness ==
  \E r, q \in Runs :
    /\ runs[r].promise.calls = 2
    /\ runs[r].promise.resolutions = 1
    /\ Gone(q)
    /\ runs[q].promise.state = "pending"

\* The payload the awaited event of run r carried when it first fired.
FirstPayload(r) ==
  CASE runs[r].on = "exit"    -> runs[r].exit
    [] runs[r].on = "error"   -> ENOENT
    [] runs[r].on = "message" -> Payload("message", 1)
    [] OTHER -> NoValue

Batches == 1..Len(batches)
Members(b) == 1..batches[b].n

\* C3: when runAsync's future is fulfilled, its result has one entry per
\* request and entry i is the payload request i resolved with, whatever the
\* order in which the children completed.
C3_PositionalResults ==
  \A b \in Batches : batches[b].promise.state = "fulfilled" =>
    /\ Len(batches[b].result) = batches[b].n
    /\ \A i \in Members(b) :
         /\ Fired(batches[b].first + i)
         /\ batches[b].result[i] = FirstPayload(batches[b].first + i)

C3_Witness ==
  \E b \in Batches :
    /\ batches[b].promise.state = "fulfilled"
    /\ batches[b].n = 2
    /\ batches[b].result = <<Payload("exit", 2), Payload("message", 1)>>
    /\ Member(b, 2).phase = "live"

Sessions == 1..Len(sessions)

\* C4 as stated: the future of compileAndWatch is resolved by the first build
\* pass of the session, is resolved once and is never rejected.
C4_ResolvedByFirstPass ==
  \A k \in Sessions : sessions[k].mode = "watch" =>
    /\ sessions[k].promise.resolutions <= 1
    /\ sessions[k].promise.state # "rejected"
    /\ sessions[k].promise.state = "fulfilled" <=> sessions[k].passes >= 1

\* C5 as stated: the future of compile is resolved exactly once by the single
\* build pass, whatever the engine reports, and is never rejected.
C5_CompileResolves ==
  \A k \in Sessions : sessions[k].mode = "run" =>
    /\ sessions[k].promise.state # "rejected"
    /\ sessions[k].passes = 1 =>
         /\ sessions[k].promise.state = "fulfilled"
         /\ sessions[k].promise.resolutions = 1

\* C6: once the reactions have run, a join with a rejected run is rejected
\* with that run's reason and surfaces no result; its other children are
\* untouched: a live one can still exit.
C6_RejectionKeepsSiblings ==
  \A b \in Batches :
    /\ batches[b].promise.state = "rejected" => batches[b].result = <<>>
    /\ (jobs = <<>> /\ \E i \in Members(b) : Member(b, i).promise.state = "rejected") =>
         /\ batches[b].promise.state = "rejected"
         /\ batches[b].promise.value = TypeError
         /\ \A i \in Members(b) :
              Member(b, i).phase = "live" => ENABLED ChildExit(batches[b].first + i, 0)

C6_Witness ==
  \E b \in Batches : \E i \in Members(b) :
    /\ batches[b].promise.state = "rejected"
    /\ batches[b].result = <<>>
    /\ Member(b, i).phase = "exited"
    /\ Member(b, i).promise.state = "fulfilled"
    /\ Member(b, i).promise.value = Payload("exit", 0)

\* C7 as stated: after a spawn failure the future is rejected exactly when
\* the awaited event is 'error', and is pending otherwise.
C7_RejectedIffErrorEvent ==
  \A r \in Runs : runs[r].phase = "errored" =>
    /\ runs[r].promise.state = "rejected" <=> runs[r].on = "error"
    /\ runs[r].on # "error" => runs[r].promise.state = "pending"

\* C7 amended: a spawn failure never rejects the future: the future is
\* fulfilled with the error as its value exactly when the awaited event is
\* 'error', and stays pending when it is 'exit' or 'message'.
C7_SpawnFailureResolves ==
  \A r \in Runs : runs[r].phase \in {"failing", "errored"} =>
    /\ runs[r].promise.state # "rejected"
    /\ runs[r].promise.state = "fulfilled" <=>
         (runs[r].phase = "errored" /\ runs[r].on = "error")
    /\ runs[r].promise.state = "fulfilled" => runs[r].promise.value = ENOENT

C7_Witness ==
  \E r, q \in Runs :
    /\ runs[r].phase = "errored" /\ runs[r].on = "error"
    /\ runs[r].promise.state = "fulfilled" /\ runs[r].promise.value = ENOENT
    /\ runs[q].phase = "errored" /\ runs[q].on = "exit"
    /\ runs[q].promise.state = "pending"

AllFired(b) == b \in Batches /\ \A i \in Members(b) : Fired(batches[b].first + i)

\* C8: the join is never fulfilled while one of its runs is pending, and
\* once the awaited event of every one of its children has fired the join
\* is eventually fulfilled.
C8_JoinWaitsForAll ==
  /\ [](\A b \in Batches : batches[b].promise.state = "fulfilled" =>
          \A i \in Members(b) : Member(b, i).promise.state = "fulfilled")
  /\ \A b \in 1..MaxRuns :
       AllFired(b) ~> (b \in Batches /\ batches[b].promise.state = "fulfilled")

C8_Witness ==
  \E b \in Batches :
    /\ batches[b].n = 2
    /\ batches[b].promise.state = "pending"
    /\ batches[b].remaining = 1
    /\ \E i \in Members(b) : Member(b, i).promise.state = "pending"
    /\ \E i \in Members(b) : Member(b, i).promise.state = "fulfilled"

Calls == 1..Len(servers)
IsHot(params) == Get(params, "hot") = "true"

\* The path of the built artifact of each name, as the documentation writes it.
Built ==
  [n \in BundleNames \cup EntryNames |->
     CASE n = "alpha" -> "build/alpha.js"
       [] n = "beta"  -> "build/beta.js"
       [] n = "x.js"  -> "build/x.js.js"
       [] n = "y.js"  -> "build/y.js.js"]

Expected(name, hot) ==
  IF hot
    THEN [script |-> "scripts/nodemon", params |-> [args |-> <<Built[name]>>]]
    ELSE [script |-> Built[name], params |-> [method |-> "fork"]]

\* C9: with an explicit bundles list getServers returns one request per
\* name, in input order: the forked artifact when hot is not set, the
\* nodemon wrapper with the artifact as its argument, and no method, when it is.
C9_ExplicitBundles ==
  \A c \in Calls : Has(servers[c].params, "bundles") =>
    /\ Len(servers[c].result) = Len(servers[c].params.bundles)
    /\ \A i \in 1..Len(servers[c].result) :
         /\ servers[c].result[i] = Expected(servers[c].params.bundles[i], IsHot(servers[c].params))
         /\ IsHot(servers[c].params) => ~Has(servers[c].result[i].params, "method")

C9_Witness ==
  \E c, d \in Calls :
    /\ servers[c].params = [bundles |-> <<"alpha", "beta">>, hot |-> "false"]
    /\ servers[c].result = <<[script |-> "build/alpha.js", params |-> [method |-> "fork"]],
                             [script |-> "build/beta.js", params |-> [method |-> "fork"]]>>
    /\ servers[d].params = [bundles |-> <<"beta", "alpha">>, hot |-> "true"]
    /\ servers[d].result[1].params.args = <<"build/beta.js">>

\* C10: without a bundles list getServers maps every entry of the directory
\* listing once, in listing order, by the same rule; the directory is read
\* once per such call and never for a call with an explicit list.
C10_DiscoveredBundles ==
  /\ \A c \in Calls : ~Has(servers[c].params, "bundles") =>
       /\ Len(servers[c].result) = Len(dir)
       /\ \A i \in 1..Len(dir) :
            servers[c].result[i] = Expected(dir[i], IsHot(servers[c].params))
  /\ fsReads = Cardinality({c \in Calls : ~Has(servers[c].params, "bundles")})

C10_Witness ==
  \E c, d \in Calls :
    /\ dir = <<"y.js", "x.js">>
    /\ ~Has(servers[c].params, "bundles")
    /\ servers[c].result = <<Expected("y.js", FALSE), Expected("x.js", FALSE)>>
    /\ Has(servers[d].params, "bundles")
    /\ fsReads = 1

\* A child was handed to the operating system by run r.
Spawned(r) == runs[r].phase # "none"

\* The environment of the child of run r is the ambient one but for NODE_ENV.
SameButMode(r) ==
  /\ DOMAIN runs[r].env = DOMAIN processEnv \cup {"NODE_ENV"}
  /\ \A k \in DOMAIN processEnv \ {"NODE_ENV"} : runs[r].env[k] = processEnv[k]

\* C11 as stated: every child gets the ambient environment with NODE_ENV set
\* to the inherited value, or to "development" when the variable is absent.
C11_InheritedOrDefault ==
  \A r \in Runs : Spawned(r) =>
    /\ SameButMode(r)
    /\ runs[r].env.NODE_ENV =
         IF Has(processEnv, "NODE_ENV") THEN processEnv.NODE_ENV ELSE "development"

\* C11 amended: under each strategy the child gets the ambient environment
\* with NODE_ENV set to the inherited value, or to "development" when the
\* variable is absent or empty; no step changes the ambient environment.
C11_ChildEnvironment ==
  /\ [](\A r \in Runs : Spawned(r) =>
          /\ SameButMode(r)
          /\ runs[r].env.NODE_ENV =
               IF Has(processEnv, "NODE_ENV") /\ processEnv.NODE_ENV # ""
                 THEN processEnv.NODE_ENV ELSE "development")
  /\ [][processEnv' = processEnv]_vars

C11_Witness ==
  \E r, q \in Runs :
    /\ runs[r].via = "fork" /\ Spawned(r)
    /\ runs[q].via = "exec" /\ Spawned(q)
    /\ processEnv = [HOME |-> "/root", NODE_ENV |-> ""]
    /\ runs[r].env = [HOME |-> "/root", NODE_ENV |-> "development"]
    /\ runs[q].env = runs[r].env

\* How often the awaited event has fired on the child of run r.
Firings(r) ==
  CASE runs[r].on = "exit"    -> IF runs[r].phase = "exited" THEN 1 ELSE 0
    [] runs[r].on = "error"   -> IF runs[r].phase = "errored" THEN 1 ELSE 0
    [] runs[r].on = "message" -> runs[r].msgs
    [] OTHER -> 0

\* C13 as stated: the listener is one-time, so the resolver of a run is
\* invoked at most once, however often the awaited event fires.
C13_ResolverCalledOnce ==
  \A r \in Runs : runs[r].promise.calls <= 1

\* C13 amended: under all three strategies the listener stays attached: the
\* resolver is invoked at every firing of the awaited event, and the
\* invocations after the first do not settle the future again.
C13_ListenerStaysAttached ==
  \A r \in Runs :
    /\ runs[r].promise.calls = Firings(r)
    /\ runs[r].promise.calls >= 1 => runs[r].promise.resolutions = 1

C13_Witness ==
  \E r \in Runs :
    /\ runs[r].on = "message"
    /\ runs[r].msgs = 2
    /\ runs[r].promise.calls = 2
    /\ runs[r].promise.resolutions = 1

\* C20: a fulfilled future holds the payload of the first firing of the
\* awaited event, whatever fired afterwards; a future whose child exists is
\* never rejected, and the resolver calls after the first change nothing.
C20_FirstPayloadKept ==
  \A r \in Runs :
    /\ runs[r].promise.state = "fulfilled" => runs[r].promise.value = FirstPayload(r)
    /\ Spawned(r) => runs[r].promise.state # "rejected"
    /\ runs[r].promise.resolutions <= 1

C20_Witness ==
  \E r \in Runs :
    /\ runs[r].on = "message"
    /\ runs[r].msgs = 2
    /\ runs[r].phase = "exited"
    /\ runs[r].promise.calls = 2
    /\ runs[r].promise.state = "fulfilled"
    /\ runs[r].promise.value = Payload("message", 1)

FileOps == {b \in Batches : Has(batches[b], "op")}

\* The command line of each item, as the documentation writes it.
CommandLine(op, item) ==
  CASE op = "copy" /\ item.target = "app/a" -> "cp -a app/a out"
    [] op = "copy" /\ item.target = "app/b" -> "cp -a app/b pub"
    [] op = "move" /\ item.target = "app/a" -> "mv app/a out"
    [] op = "move" /\ item.target = "app/b" -> "mv app/b pub"

\* The runs of join b follow those of the joins before it.
Contiguous(b) ==
  batches[b].first = IF b = 1 THEN 0 ELSE batches[b - 1].first + batches[b - 1].n

\* C12: copy and move start one exec run per item, in item order, whose
\* command line is `cp -a target dest` or `mv target dest`, and no other run;
\* the join is fulfilled only when every item's run is, with the results in
\* item order.
C12_FileOps ==
  /\ \A b \in Batches : Contiguous(b)
  /\ Len(runs) = IF batches = <<>> THEN 0
                 ELSE batches[Len(batches)].first + batches[Len(batches)].n
  /\ \A b \in FileOps :
       /\ batches[b].n = Len(batches[b].items)
       /\ \A i \in Members(b) :
            /\ Member(b, i).via = "exec"
            /\ Member(b, i).script = CommandLine(batches[b].op, batches[b].items[i])
            /\ Member(b, i).args = <<>>
       /\ batches[b].promise.state = "fulfilled" =>
            /\ Len(batches[b].result) = batches[b].n
            /\ \A i \in Members(b) :
                 /\ Member(b, i).promise.state = "fulfilled"
                 /\ batches[b].result[i] = Member(b, i).promise.value

C12_Witness ==
  \E b, c \in FileOps :
    /\ batches[b].op = "copy" /\ batches[b].n = 1
    /\ Member(b, 1).script = "cp -a app/b pub"
    /\ batches[b].promise.state = "fulfilled"
    /\ batches[b].result = <<Payload("exit", 2)>>
    /\ batches[c].op = "move" /\ batches[c].n = 1
    /\ Member(c, 1).script = "mv app/a out"
    /\ batches[c].promise.state = "fulfilled"

\* C16: the step that makes a join starts the child of every one of its
\* requests and handles no completion: right after it none of the new
\* children has emitted anything and no older run has changed, so all N
\* children of the join are alive together.
C16_AllStartedAtOnce ==
  /\ [](\A b \in Batches : batches[b].first + batches[b].n <= Len(runs))
  /\ [][Len(batches') = Len(batches) + 1 =>
          LET bt == batches'[Len(batches')]
          IN  /\ Len(runs') = Len(runs) + bt.n
              /\ bt.first = Len(runs)
              /\ \A i \in 1..bt.n :
                   /\ runs'[bt.first + i].phase \in {"live", "failing", "none"}
                   /\ runs'[bt.first + i].msgs = 0
                   /\ runs'[bt.first + i].promise.calls = 0
              /\ \A r \in Runs : runs'[r] = runs[r]]_vars

C16_Witness ==
  \E b \in Batches : \E c \in FileOps :
    /\ ~Has(batches[b], "op")
    /\ batches[b].n = MaxRuns
    /\ \A i \in Members(b) : Member(b, i).phase = "live"
    /\ batches[c].n = 0

\* C17: fork and spawn get the args list and exec gets none; a method other
\* than fork and exec, or none, means spawn; absent args mean the empty list
\* and an absent resolveOn means 'exit'; a bare string given to runAsync is
\* run with no params, so with all of these defaults.
C17_Dispatch ==
  \A r \in Runs :
    LET p == runs[r].params
    IN  /\ runs[r].via = IF Has(p, "method") /\ p.method \in {"fork", "exec"}
                           THEN p.method ELSE "spawn"
        /\ runs[r].args = IF runs[r].via # "exec" /\ Has(p, "args") THEN p.args ELSE <<>>
        /\ Spawned(r) => runs[r].on = IF Has(p, "resolveOn") THEN p.resolveOn ELSE "exit"
        /\ (runs[r].batch # 0 /\ runs[r].script = "a") =>
             /\ p = EmptyObj
             /\ runs[r].via = "spawn"
             /\ runs[r].args = <<>>
             /\ runs[r].on = "exit"

C17_Witness ==
  \E r, q \in Runs :
    /\ runs[r].params = [method |-> "exec", args |-> <<"-v">>]
    /\ runs[r].via = "exec" /\ runs[r].args = <<>>
    /\ runs[q].batch # 0 /\ runs[q].script = "a"
    /\ runs[q].via = "spawn" /\ runs[q].on = "exit"

Watches == {k \in Sessions : sessions[k].mode = "watch"}

\* C14 as stated: logWebpackData never throws, puts the error on the error
\* channel exactly when the callback carries one and a rendering of the
\* stats on the log channel exactly when it carries stats.
C14_ReportNeverFails ==
  \A k \in Sessions : sessions[k].passes >= 1 =>
    /\ ~Throws(sessions[k].last)
    /\ Count(sessions[k].last, "error") = IF sessions[k].input[1] # Undefined THEN 1 ELSE 0
    /\ Count(sessions[k].last, "log") = IF sessions[k].input[2] # Undefined THEN 1 ELSE 0

\* C15 as stated: in watch mode the report of every build pass completes;
\* the first pass reports, then resolves the future and leaves the session
\* steady, and a later pass reports and does not resolve.
C15_ReportedThenResolved ==
  \A k \in Watches :
    /\ sessions[k].throws = 0
    /\ sessions[k].passes = 1 =>
         /\ Len(sessions[k].last) >= 2
         /\ sessions[k].last[Len(sessions[k].last)] = "resolve"
         /\ Count(sessions[k].last, "resolve") = 1
         /\ ~sessions[k].initialRun
         /\ sessions[k].promise.state = "fulfilled"
    /\ sessions[k].passes > 1 =>
         /\ sessions[k].last # <<>>
         /\ Count(sessions[k].last, "resolve") = 0
         /\ ~sessions[k].initialRun

\* C18: in a watch session initialRun is false exactly when the resolver of
\* the session's future has been called, which makes the future fulfilled,
\* and a flag that is false stays false.
C18_FlagTracksResolver ==
  /\ [](\A k \in Watches :
          /\ ~sessions[k].initialRun <=> sessions[k].promise.calls >= 1
          /\ ~sessions[k].initialRun <=> sessions[k].promise.state = "fulfilled"
          /\ sessions[k].promise.calls <= 1)
  /\ [][\A k \in Watches : ~sessions[k].initialRun => ~sessions'[k].initialRun]_vars

C18_Witness ==
  \E k \in Watches :
    /\ sessions[k].passes = 2
    /\ sessions[k].throws = 1
    /\ sessions[k].last = <<"log", "resolve">>
    /\ ~sessions[k].initialRun
    /\ sessions[k].promise.calls = 1
    /\ sessions[k].promise.state = "fulfilled"

\* C19 as stated: of two watch sessions, a build pass of one leaves the
\* other as it was, and the first build pass of a session fulfils that
\* session's future.
C19_SessionsIndependent ==
  [][\A j, k \in Watches :
       (j # k /\ sessions'[j].passes = sessions[j].passes + 1) =>
         /\ sessions'[k] = sessions[k]
         /\ sessions[j].passes = 0 => sessions'[j].promise.state = "fulfilled"]_vars

====
